---- MODULE Spec2Model ----
(***************************************************************************)
(* A model of link32 (src/src/main.rs): the object-file decoder            *)
(* (Header::from_slice, read_symbols, read_relocations, read_object_file), *)
(* the merge loop of link_object_files and the resolver apply_relocations. *)
(*                                                                         *)
(* Representation.  A byte is a number in 0..255 and a buffer a sequence   *)
(* of bytes; Rust's 0-based index i is the sequence's index i + 1.  A u32  *)
(* is the pair <<hi, lo>> of its 16-bit halves (value hi * 2^16 + lo), so  *)
(* that all 32 bits are kept although TLC's integers stop at 2^31 - 1.  A  *)
(* String is the sequence of its UTF-8 bytes; a HashMap is a function on   *)
(* the finite set of its keys.                                             *)
(***************************************************************************)
EXTENDS Integers, Sequences, FiniteSets, TLC

\* ------------------------------------------------------------ u32, usize

Half == 256 * 256

\* u32::from_le_bytes([b0, b1, b2, b3])
from_le_bytes(b0, b1, b2, b3) == <<b3 * 256 + b2, b1 * 256 + b0>>

\* Fault model for C2: the bytes in big-endian order (u32::to_be_bytes).
to_be_bytes(u) == <<u[1] \div 256, u[1] % 256, u[2] \div 256, u[2] % 256>>

\* u32::to_le_bytes
to_le_bytes(u) == <<u[2] % 256, u[2] \div 256, u[1] % 256, u[1] \div 256>>

\* `x as usize` of a u32 on a 64-bit target.  Every buffer of the model is
\* shorter than 2^16 bytes, so a value with a nonzero high half only has to
\* compare as larger than every length and every loop index: it is
\* represented by 2^16.
as_usize(u) == IF u[1] = 0 THEN u[2] ELSE Half

\* `n as u32` of a usize (truncation to 32 bits); n < 2^31 in the model.
as_u32(n) == <<(n \div Half) % Half, n % Half>>

\* The mathematical sum a + b of two u32 as <<hi, lo>> with hi unbounded.
wide_add(a, b) ==
    LET lo == a[2] + b[2]
    IN  <<a[1] + b[1] + (lo \div Half), lo % Half>>

\* `a + b` on u32: the sum, and whether it overflowed.  With overflow checks
\* (a debug build) an overflow panics; without (a release build) it wraps.
add_overflows(a, b) == wide_add(a, b)[1] >= Half
wrapping_add(a, b) == <<wide_add(a, b)[1] % Half, wide_add(a, b)[2]>>

\* ------------------------------------------------------------- strings

RECURSIVE utf8_run(_, _)
\* std::str::from_utf8's validation of s from (1-based) position i.
utf8_run(s, i) ==
    IF i > Len(s) THEN TRUE
    ELSE LET b == s[i]
             cont(j, lo, hi) == j <= Len(s) /\ s[j] >= lo /\ s[j] <= hi
         IN  IF b < 128 THEN utf8_run(s, i + 1)
             ELSE IF b >= 194 /\ b <= 223
                  THEN cont(i + 1, 128, 191) /\ utf8_run(s, i + 2)
             ELSE IF b >= 224 /\ b <= 239
                  THEN /\ cont(i + 1, IF b = 224 THEN 160 ELSE 128,
                                      IF b = 237 THEN 159 ELSE 191)
                       /\ cont(i + 2, 128, 191)
                       /\ utf8_run(s, i + 3)
             ELSE IF b >= 240 /\ b <= 244
                  THEN /\ cont(i + 1, IF b = 240 THEN 144 ELSE 128,
                                      IF b = 244 THEN 143 ELSE 191)
                       /\ cont(i + 2, 128, 191)
                       /\ cont(i + 3, 128, 191)
                       /\ utf8_run(s, i + 4)
             ELSE FALSE

\* String::from_utf8(bytes).is_ok()
from_utf8_ok(bytes) == utf8_run(bytes, 1)

RECURSIVE to_string_lsd_first(_)
\* Fault model for C6: the digits emitted least significant first.
to_string_lsd_first(u) ==
    LET r    == u[1] % 10
        low  == r * Half + u[2]
        q    == <<u[1] \div 10, low \div 10>>
        unit == <<48 + (low % 10)>>
    IN  IF q = <<0, 0>> THEN unit ELSE unit \o to_string_lsd_first(q)

RECURSIVE to_string(_)
\* u32::to_string: the decimal digits, most significant first, in ASCII.
\* The division by ten is done on the halves: with r = hi % 10, the low
\* half of the quotient is (r * 2^16 + lo) \div 10 < 2^16.
to_string(u) ==
    LET r    == u[1] % 10
        low  == r * Half + u[2]
        q    == <<u[1] \div 10, low \div 10>>
        unit == <<48 + (low % 10)>>
    IN  IF q = <<0, 0>> THEN unit ELSE to_string(q) \o unit

RECURSIVE join(_, _)
\* [String]::join(sep)
join(names, sep) ==
    IF names = <<>> THEN <<>>
    ELSE IF Len(names) = 1 THEN names[1]
    ELSE names[1] \o sep \o join(Tail(names), sep)

\* ------------------------------------------------------------- HashMap

EmptyMap == <<>>

\* Fault model for C9: entry(k).or_insert(v), which keeps the first value.
insert_if_vacant(m, k, v) ==
    [x \in (DOMAIN m) \cup {k} |-> IF x \in DOMAIN m THEN m[x] ELSE v]

\* HashMap::insert: a later insert of the same key replaces the value.
insert(m, k, v) == [x \in (DOMAIN m) \cup {k} |-> IF x = k THEN v ELSE m[x]]

\* The orders in which iterating a HashMap can yield its keys: the hasher is
\* seeded at random, so every order of the key set.
iter_orders(m) ==
    LET n == Cardinality(DOMAIN m)
    IN  {o \in [1..n -> DOMAIN m] : \A i, j \in 1..n : i # j => o[i] # o[j]}

\* ------------------------------------------------------------- decoder

\* buffer[i] and buffer[a..b] with Rust's 0-based indices
at(data, i) == data[i + 1]
slice(data, a, b) == SubSeq(data, a + 1, b)
u32_at(data, i) ==
    from_le_bytes(at(data, i), at(data, i + 1), at(data, i + 2), at(data, i + 3))

Panic(msg, args) == [tag |-> "Panic", msg |-> msg, args |-> args]
Ok(value) == [tag |-> "Ok", value |-> value]

\* Fault model for C5: the three fields read one byte early, at bytes 4, 8
\* and 12.
Header_from_slice_early(s) ==
    [symbol_offset     |-> from_le_bytes(at(s, 4), at(s, 5), at(s, 6), at(s, 7)),
     relocation_offset |-> from_le_bytes(at(s, 8), at(s, 9), at(s, 10), at(s, 11)),
     code_offset       |-> from_le_bytes(at(s, 12), at(s, 13), at(s, 14), at(s, 15))]

\* Header::from_slice on the 17-byte slice buffer[0..17]
Header_from_slice(s) ==
    [symbol_offset     |-> from_le_bytes(at(s, 5), at(s, 6), at(s, 7), at(s, 8)),
     relocation_offset |-> from_le_bytes(at(s, 9), at(s, 10), at(s, 11), at(s, 12)),
     code_offset       |-> from_le_bytes(at(s, 13), at(s, 14), at(s, 15), at(s, 16))]

RECURSIVE read_symbols_loop(_, _, _, _, _)
\* The loop `for i in 0..count` of read_symbols, from iteration i with the
\* cursor at pos.
read_symbols_loop(data, pos, i, count, symbols) ==
    LET buffer_len == Len(data)
    IN  IF i >= as_usize(count) THEN Ok(symbols)
        ELSE IF pos >= buffer_len
        THEN Panic("Unexpected end of buffer while reading symbol name length at symbol {}", <<i>>)
        ELSE LET name_len == at(data, pos)
                 p1       == pos + 1
             IN  IF p1 + name_len > buffer_len
                 THEN Panic("Unexpected end of buffer while reading symbol name at symbol {}", <<i>>)
                 ELSE LET name == slice(data, p1, p1 + name_len)
                          p2   == p1 + name_len
                      IN  IF ~from_utf8_ok(name)
                          THEN Panic("called Result::unwrap() on an Err value: FromUtf8Error", <<>>)
                          ELSE IF p2 + 4 > buffer_len
                          THEN Panic("Unexpected end of buffer while reading symbol address at symbol {}", <<i>>)
                          ELSE read_symbols_loop(data, p2 + 4, i + 1, count,
                                                 insert(symbols, name, u32_at(data, p2)))

read_symbols(data, offset) ==
    IF as_usize(offset) + 4 > Len(data)
    THEN Panic("Invalid symbol table offset, {offset}, buffer length {buffer_len}", <<>>)
    ELSE read_symbols_loop(data, as_usize(offset) + 4, 0,
                           u32_at(data, as_usize(offset)), EmptyMap)

RECURSIVE read_relocations_loop(_, _, _, _, _)
\* The loop `for _ in 0..count` of read_relocations.
read_relocations_loop(data, pos, i, count, relocations) ==
    LET buffer_len == Len(data)
    IN  IF i >= as_usize(count) THEN Ok(relocations)
        ELSE IF pos + 4 > buffer_len
        THEN Panic("Unexpected end of buffer while reading symbol index", <<>>)
        ELSE IF pos + 8 > buffer_len
        THEN Panic("Unexpected end of buffer while reading relocation address", <<>>)
        ELSE read_relocations_loop(data, pos + 8, i + 1, count,
                 Append(relocations,
                        <<to_string(u32_at(data, pos)), u32_at(data, pos + 4)>>))

read_relocations(data, offset) ==
    IF as_usize(offset) + 4 > Len(data)
    THEN Panic("Invalid relocation table offset", <<>>)
    ELSE read_relocations_loop(data, as_usize(offset) + 4, 0,
                               u32_at(data, as_usize(offset)), <<>>)

\* read_object_file once the file's bytes are in `buffer`.  The slices
\* buffer[0..17] and buffer[code_offset..] are bounds-checked by the
\* language: out of range, they panic.
read_object_file(data) ==
    IF 17 > Len(data)
    THEN Panic("range end index 17 out of range for slice of length {}", <<Len(data)>>)
    ELSE LET header      == Header_from_slice(slice(data, 0, 17))
             symbols     == read_symbols(data, header.symbol_offset)
             relocations == read_relocations(data, header.relocation_offset)
         IN  IF symbols.tag = "Panic" THEN symbols
             ELSE IF relocations.tag = "Panic" THEN relocations
             ELSE IF as_usize(header.code_offset) > Len(data)
             THEN Panic("range start index {} out of range for slice of length {}",
                        <<as_usize(header.code_offset), Len(data)>>)
             ELSE [tag         |-> "Ok",
                   header      |-> header,
                   symbols     |-> symbols.value,
                   relocations |-> relocations.value,
                   code        |-> slice(data, as_usize(header.code_offset), Len(data))]

\* -------------------------------------------------------------- inputs

MaxFiles == 2
MaxSyms == 2
MaxRels == 2

U(n) == <<0, n>>
UMax == <<65535, 65535>>

\* Symbol names: "0", "1", "10", "a", "é" and a byte string that is no UTF-8.
N0 == <<48>>
N1 == <<49>>
N10 == <<49, 48>>
NA == <<97>>
NEacute == <<195, 169>>
NBad == <<255>>

RECURSIVE concat(_)
concat(seqs) == IF seqs = <<>> THEN <<>> ELSE seqs[1] \o concat(Tail(seqs))

\* The four bytes of a u32 as the file format stores them.
le4(u) == <<u[2] % 256, u[2] \div 256, u[1] % 256, u[1] \div 256>>

\* An object file is described by its leading bytes, its symbol table (a
\* sequence of <<name, address>>), its relocation table (a sequence of
\* <<symbol index, site, the index in decimal>>) and its code.
Desc(pad, syms, rels, code) == [pad |-> pad, syms |-> syms, rels |-> rels, code |-> code]

\* A symbol table entry as read_symbols reads it, and a relocation entry as
\* read_relocations reads it.
symbol_entry(e) == <<Len(e[1])>> \o e[1] \o le4(e[2])
relocation_entry(r) == le4(r[1]) \o le4(r[2])
symbol_table(syms) ==
    le4(U(Len(syms))) \o concat([k \in 1..Len(syms) |-> symbol_entry(syms[k])])
relocation_table(rels) ==
    le4(U(Len(rels))) \o concat([k \in 1..Len(rels) |-> relocation_entry(rels[k])])

\* A file: five leading bytes the reader skips, the three offsets, the rest.
file_bytes(pad, symbol_offset, relocation_offset, code_offset, rest) ==
    pad \o le4(symbol_offset) \o le4(relocation_offset) \o le4(code_offset) \o rest

\* The well-formed object file of a description: header, symbol table,
\* relocation table, code.
object_bytes(d) ==
    LET st == symbol_table(d.syms)
        rt == relocation_table(d.rels)
    IN  file_bytes(d.pad, U(17), U(17 + Len(st)), U(17 + Len(st) + Len(rt)),
                   st \o rt \o d.code)

Pad0 == <<0, 0, 0, 0, 0>>
Pad1 == <<76, 51, 50, 1, 2>>

\* Code of n bytes, none of which a patch of the model writes.
code_of(n) == [k \in 1..n |-> 160 + k]
CodeLens == {4, 8}

\* Relocation entries: a reference to symbol index 0, 1, 10 or 2^32 - 1.
R0(site) == <<U(0), U(site), N0>>
R1(site) == <<U(1), U(site), N1>>
R10(site) == <<U(10), U(site), N10>>
RMax(site) == <<UMax, U(site), <<52, 50, 57, 52, 57, 54, 55, 50, 57, 53>> >>

SymTableChoices ==
    { <<>>,
      << <<N0, U(0)>> >>,
      << <<N1, U(2)>> >>,
      << <<N0, U(2)>>, <<N0, U(1)>> >>,
      << <<N0, U(6)>>, <<N1, U(2)>> >>,
      << <<N1, UMax>> >>,
      << <<N0, U(0)>>, <<N1, U(2)>>, <<N0, U(4)>> >>,
      << <<N1, U(1)>>, <<N0, U(3)>>, <<N1, U(5)>>, <<N0, U(7)>> >> }
SymTables == {t \in SymTableChoices : Len(t) <= MaxSyms}

RelTableChoices ==
    { <<>>,
      << R0(0) >>,
      << R0(0), R1(4) >>,
      << R0(0), R1(2) >>,
      << R1(0), R1(4) >>,
      << R1(5) >>,
      << R0(0), R1(2), R0(4) >>,
      << R1(0), R0(1), R1(2), R0(3) >> }
RelTables == {t \in RelTableChoices : Len(t) <= MaxRels}

\* The files the multi-file runs draw from: files that only define, files
\* that only refer, and three that do both (the second refers to the first's
\* symbol and defines the one the first refers to, the third defines a name
\* twice and refers to it).
LinkDescs ==
    {Desc(Pad0, s, <<>>, code_of(n)) : s \in SymTables, n \in CodeLens}
    \cup {Desc(Pad0, <<>>, r, code_of(n)) : r \in RelTables, n \in CodeLens}
    \cup {Desc(Pad0, << <<N0, U(0)>> >>, << R1(4) >>, code_of(8)),
          Desc(Pad1, << <<N1, U(0)>> >>, << R0(0) >>, code_of(6)),
          Desc(Pad0, << <<N0, U(5)>>, <<N0, U(3)>> >>, << R0(0), R0(4) >>, code_of(8))}
LinkInputs == {object_bytes(d) : d \in LinkDescs}

\* The files the single-file runs draw from: well-formed files with names
\* and indices of every kind, each cut at every length, and files whose
\* header offsets point elsewhere.
DecodeDescs ==
    { Desc(Pad1, << <<N10, U(2)>>, <<NA, UMax>> >>, << R10(0), R10(4) >>, code_of(8)),
      Desc(Pad0, << <<NEacute, U(1)>>, <<N0, U(3)>>, <<N0, U(4)>> >>,
           << RMax(1), R0(0) >>, code_of(5)),
      Desc(Pad0, << <<NBad, U(0)>> >>, <<>>, code_of(4)),
      Desc(Pad1, << <<<<>>, U(0)>>, <<N1, U(258)>> >>, << R1(0) >>, code_of(4)) }

Truncations(b) == {SubSeq(b, 1, k) : k \in 0..Len(b)}

HeaderVariants ==
    LET st   == symbol_table(<< <<N0, U(1)>> >>)
        rt   == relocation_table(<< R0(0) >>)
        rest == st \o rt \o code_of(4)
        so   == 17
        ro   == 17 + Len(st)
        co   == ro + Len(rt)
        end  == co + 4
    IN  { file_bytes(Pad0, U(so), U(ro), U(c), rest) : c \in {0, co + 2, end, end + 1} }
        \cup { file_bytes(Pad0, U(so), U(ro), UMax, rest),
               file_bytes(Pad0, UMax, U(ro), U(co), rest),
               file_bytes(Pad0, U(so), UMax, U(co), rest),
               file_bytes(Pad0, U(so), U(so), U(co), rest),
               file_bytes(Pad0, U(ro), U(so), U(co), rest),
               file_bytes(Pad0, U(end - 3), U(ro), U(co), rest),
               file_bytes(Pad0, U(so), U(end - 3), U(co), rest) }

DecodeInputs ==
    (UNION {Truncations(object_bytes(d)) : d \in DecodeDescs}) \cup HeaderVariants

RECURSIVE SetToSeq(_)
SetToSeq(S) ==
    IF S = {} THEN <<>>
    ELSE LET x == CHOOSE y \in S : TRUE IN <<x>> \o SetToSeq(S \ {x})

\* The file system: the contents of every path an invocation may name.
Disk ==
    SetToSeq(LinkInputs) \o SetToSeq(HeaderVariants)
    \o concat([k \in 1..Cardinality(DecodeDescs) |->
                 LET b == object_bytes(SetToSeq(DecodeDescs)[k])
                 IN  [n \in 1..(Len(b) + 1) |-> SubSeq(b, 1, n - 1)]])
DecodePaths == {p \in 1..Len(Disk) : Disk[p] \in DecodeInputs}
LinkPaths == {p \in 1..Len(Disk) : Disk[p] \in LinkInputs}

\* The command lines: one file of the decoding set, or up to MaxFiles files
\* of the linking set.
InputLists ==
    {<<p>> : p \in DecodePaths}
    \cup UNION {[1..n -> LinkPaths] : n \in 1..MaxFiles}

\* --------------------------------------------------------------- state

VARIABLES
    files,                \* the input files' paths, in command-line order
    overflow_checks,      \* whether the build panics on integer overflow
    pc,                   \* where link_object_files is
    idx,                  \* the `for path in paths` loop: the next file
    buffer,               \* the bytes read_object_file last read
    obj_file,             \* what read_object_file last returned
    combined_symbols,
    combined_relocations,
    combined_code,
    base_address,
    rel_done,             \* the relocations apply_relocations has visited
    unresolved_symbols,
    patches,              \* history: every <<relocation, site, bytes>> written
    stderr,               \* what the process reported when it stopped
    output                \* the images written to the output path

vars == <<files, overflow_checks, pc, idx, buffer, obj_file, combined_symbols,
          combined_relocations, combined_code, base_address, rel_done,
          unresolved_symbols, patches, stderr, output>>

merge_vars == <<combined_symbols, combined_relocations, combined_code, base_address>>
resolve_vars == <<rel_done, unresolved_symbols, patches>>

NoObject == [tag |-> "None"]
Silent == [tag |-> "None"]

Init ==
    /\ files \in InputLists
    /\ overflow_checks \in BOOLEAN
    /\ pc = "link_loop"
    /\ idx = 1
    /\ buffer = <<>>
    /\ obj_file = NoObject
    /\ combined_symbols = EmptyMap
    /\ combined_relocations = <<>>
    /\ combined_code = <<>>
    /\ base_address = U(0)
    /\ rel_done = {}
    /\ unresolved_symbols = <<>>
    /\ patches = <<>>
    /\ stderr = Silent
    /\ output = <<>>

\* ------------------------------------------------------------- merger

RECURSIVE rebase_symbols(_, _, _, _)
\* `for (name, address) in obj_file.symbols { combined_symbols.insert(name,
\* address + base_address) }`, the map yielding its keys in `order`.
rebase_symbols(combined, symbols, order, base) ==
    IF order = <<>> THEN combined
    ELSE rebase_symbols(insert(combined, order[1], wrapping_add(symbols[order[1]], base)),
                        symbols, Tail(order), base)

\* `for (symbol, address) in obj_file.relocations { combined_relocations
\* .push((symbol, address + base_address)) }`
rebase_relocations(combined, relocations, base) ==
    combined \o [k \in 1..Len(relocations) |->
                    <<relocations[k][1], wrapping_add(relocations[k][2], base)>>]

\* Whether one of the additions of the two loops overflows a u32.
rebase_overflows(obj, base) ==
    \/ \E name \in DOMAIN obj.symbols : add_overflows(obj.symbols[name], base)
    \/ \E k \in 1..Len(obj.relocations) : add_overflows(obj.relocations[k][2], base)

\* One iteration of `for path in paths`: read_object_file, then the merge.
LinkNextFile ==
    /\ pc = "link_loop"
    /\ idx <= Len(files)
    /\ LET obj == read_object_file(Disk[files[idx]])
       IN  /\ buffer' = Disk[files[idx]]
           /\ obj_file' = obj
           /\ IF obj.tag = "Panic"
              THEN /\ pc' = "Panicked"
                   /\ stderr' = obj
                   /\ UNCHANGED <<idx, merge_vars>>
              ELSE IF overflow_checks /\ rebase_overflows(obj, base_address)
              THEN /\ pc' = "Panicked"
                   /\ stderr' = Panic("attempt to add with overflow", <<>>)
                   /\ UNCHANGED <<idx, merge_vars>>
              ELSE /\ \E order \in iter_orders(obj.symbols) :
                          combined_symbols' =
                              rebase_symbols(combined_symbols, obj.symbols, order, base_address)
                   /\ combined_relocations' =
                          rebase_relocations(combined_relocations, obj.relocations, base_address)
                   /\ combined_code' = combined_code \o obj.code
                   /\ base_address' = as_u32(Len(combined_code \o obj.code))
                   /\ idx' = idx + 1
                   /\ UNCHANGED <<pc, stderr>>
    /\ UNCHANGED <<files, overflow_checks, resolve_vars, output>>

\* File::open or read_to_end fails: `?` returns the error to main, which
\* reports it and exits with status 1.
OpenFails ==
    /\ pc = "link_loop"
    /\ idx <= Len(files)
    /\ pc' = "IoError"
    /\ stderr' = [tag |-> "LinkingFailed", text |-> "io::Error", list |-> <<>>]
    /\ UNCHANGED <<files, overflow_checks, idx, buffer, obj_file, merge_vars, resolve_vars, output>>

\* The loop is over: link_object_files calls apply_relocations.
StartResolve ==
    /\ pc = "link_loop"
    /\ idx > Len(files)
    /\ pc' = "resolving"
    /\ rel_done' = {}
    /\ unresolved_symbols' = <<>>
    /\ UNCHANGED <<files, overflow_checks, idx, buffer, obj_file, merge_vars, patches, stderr, output>>

\* ------------------------------------------------------------ resolver

\* Fault model for C8: the relocations kept in a hash map, which yields
\* them in any order.
next_relocation_any_order(done, n) == (1..n) \ done

\* `for (symbol, address) in relocations`: a slice yields its elements in
\* index order, so the next one is the first not yet visited.
next_relocation(done, n) ==
    IF (1..n) \ done = {} THEN {}
    ELSE {CHOOSE k \in (1..n) \ done : \A j \in (1..n) \ done : k <= j}

\* Fault model for C10: the patch written one byte late.
copy_from_slice_shifted(code, a, bytes) ==
    [i \in 1..Len(code) |-> IF i > a + 1 /\ i <= a + 5 THEN bytes[i - a - 1] ELSE code[i]]

\* code[a..a + 4].copy_from_slice(&bytes)
copy_from_slice(code, a, bytes) ==
    [i \in 1..Len(code) |-> IF i > a /\ i <= a + 4 THEN bytes[i - a] ELSE code[i]]

\* One iteration of the loop of apply_relocations.
ApplyRelocation ==
    /\ pc = "resolving"
    /\ \E k \in next_relocation(rel_done, Len(combined_relocations)) :
          LET symbol  == combined_relocations[k][1]
              address == as_usize(combined_relocations[k][2])
          IN  /\ IF symbol \in DOMAIN combined_symbols
                 THEN IF address + 4 > Len(combined_code)
                      THEN /\ pc' = "Panicked"
                           /\ stderr' = Panic("range end index {} out of range for slice of length {}",
                                              <<address + 4, Len(combined_code)>>)
                           /\ UNCHANGED <<combined_code, rel_done, patches, unresolved_symbols>>
                      ELSE /\ combined_code' =
                                  copy_from_slice(combined_code, address,
                                                  to_le_bytes(combined_symbols[symbol]))
                           /\ patches' = Append(patches,
                                  <<k, address, to_le_bytes(combined_symbols[symbol])>>)
                           /\ rel_done' = rel_done \cup {k}
                           /\ UNCHANGED <<pc, stderr, unresolved_symbols>>
                 ELSE /\ unresolved_symbols' = Append(unresolved_symbols, symbol)
                      /\ rel_done' = rel_done \cup {k}
                      /\ UNCHANGED <<pc, stderr, combined_code, patches>>
    /\ UNCHANGED <<files, overflow_checks, idx, buffer, obj_file, combined_symbols,
                   combined_relocations, base_address, output>>

\* Fault model for C4: the result of apply_relocations ignored.
FinishResolve_ignoring_errors ==
    /\ pc = "resolving"
    /\ next_relocation(rel_done, Len(combined_relocations)) = {}
    /\ pc' = "writing"
    /\ UNCHANGED <<files, overflow_checks, idx, buffer, obj_file, merge_vars, resolve_vars,
                   stderr, output>>

\* The end of apply_relocations and what link_object_files does with its
\* result: on Err it reports the joined names and exits with status 1.
FinishResolve ==
    /\ pc = "resolving"
    /\ next_relocation(rel_done, Len(combined_relocations)) = {}
    /\ IF unresolved_symbols # <<>>
       THEN /\ pc' = "FailedUnresolved"
            /\ stderr' = [tag  |-> "LinkingFailed",
                          text |-> "Unresolved symbols: ",
                          list |-> join(unresolved_symbols, <<44, 32>>)]
       ELSE /\ pc' = "writing"
            /\ UNCHANGED stderr
    /\ UNCHANGED <<files, overflow_checks, idx, buffer, obj_file, merge_vars, resolve_vars, output>>

\* File::create(output_path) and write_all(&combined_code).
WriteOutput ==
    /\ pc = "writing"
    /\ \E created \in BOOLEAN :
          IF created
          THEN /\ output' = Append(output, combined_code)
               /\ pc' = "Succeeded"
               /\ UNCHANGED stderr
          ELSE /\ pc' = "IoError"
               /\ stderr' = [tag |-> "LinkingFailed", text |-> "io::Error", list |-> <<>>]
               /\ UNCHANGED output
    /\ UNCHANGED <<files, overflow_checks, idx, buffer, obj_file, merge_vars, resolve_vars>>

Next ==
    \/ LinkNextFile
    \/ OpenFails
    \/ StartResolve
    \/ ApplyRelocation
    \/ FinishResolve
    \/ WriteOutput

Spec == Init /\ [][Next]_vars

\* ---------------------------------------------------------- properties

RECURSIVE decode_all(_, _)
decode_all(a, b) ==
    IF a > b THEN <<>>
    ELSE IF a = b THEN <<read_object_file(Disk[a])>>
    ELSE decode_all(a, (a + b) \div 2) \o decode_all((a + b) \div 2 + 1, b)

\* What the file at each path decodes to, computed once.
DecodeTable == decode_all(1, Len(Disk))

\* What the i-th input decodes to, and the combined code length before it.
Decoded(i) == DecodeTable[files[i]]

RECURSIVE CodeLenBefore(_)
CodeLenBefore(i) == IF i <= 1 THEN 0 ELSE CodeLenBefore(i - 1) + Len(Decoded(i - 1).code)

\* The files merged so far are files[1..idx - 1].
LastDefiner(name, n) ==
    CHOOSE i \in 1..n :
        /\ name \in DOMAIN Decoded(i).symbols
        /\ \A j \in (i + 1)..n : name \notin DOMAIN Decoded(j).symbols

NRelocs == Len(combined_relocations)
RelName(k) == combined_relocations[k][1]
Resolved(k) == RelName(k) \in DOMAIN combined_symbols
Site(k) == as_usize(combined_relocations[k][2])
Window(k) == (Site(k) + 1)..(Site(k) + 4)
Target(k) == combined_symbols[RelName(k)]
Missing == {RelName(k) : k \in 1..NRelocs} \ DOMAIN combined_symbols

\* apply_relocations ran to its end (its result is Ok or Err).
ResolveFinished == pc \in {"writing", "Succeeded", "FailedUnresolved"}
\* Resolution was entered and the invocation is past it, however it ended.
ResolutionEnded == idx > Len(files) /\ pc \notin {"link_loop", "resolving"}

Mentions(text, name) ==
    \E a \in 0..(Len(text) - Len(name)) : SubSeq(text, a + 1, a + Len(name)) = name

\* C1 (as stated): the address the merged symbol table holds for a name is
\* the local address of its definition in the object that contributed it
\* plus the sum of the code lengths of the objects before that one, as
\* numbers (no wrap-around).
C1_RebaseArithmetic ==
    \A name \in DOMAIN combined_symbols :
        LET i == LastDefiner(name, idx - 1)
        IN  combined_symbols[name] =
                wide_add(Decoded(i).symbols[name], as_u32(CodeLenBefore(i)))

RECURSIVE ExpectedRelocations(_)
\* The relocation list after n files: each file's entries in file order,
\* each site moved by the combined code length before its file.
ExpectedRelocations(n) ==
    IF n = 0 THEN <<>>
    ELSE ExpectedRelocations(n - 1) \o
         [k \in 1..Len(Decoded(n).relocations) |->
            <<Decoded(n).relocations[k][1],
              wrapping_add(Decoded(n).relocations[k][2], as_u32(CodeLenBefore(n)))>>]

\* C2 (as stated): after resolution, for every relocation whose symbol is
\* defined, the four bytes at its rebased site are the little-endian bytes
\* of the symbol's merged address.
C2_PatchCorrectness_Original ==
    ResolveFinished =>
        \A k \in 1..NRelocs :
            Resolved(k) =>
                SubSeq(combined_code, Site(k) + 1, Site(k) + 4) = le4(Target(k))

\* C2 (amended): after resolution, the relocation list is every file's
\* entries with their sites rebased by that file's base address, and each
\* byte of a resolved relocation's window that no later resolved
\* relocation's window covers is the corresponding little-endian byte of
\* that relocation's symbol address.
C2_PatchCorrectness ==
    ResolveFinished =>
        /\ combined_relocations = ExpectedRelocations(Len(files))
        /\ \A k \in 1..NRelocs :
              Resolved(k) =>
                  \A p \in Window(k) :
                      (\A j \in (k + 1)..NRelocs : Resolved(j) => p \notin Window(j))
                          => combined_code[p] = le4(Target(k))[p - Site(k)]

\* C2 witness: a successful link of two files in which one symbol with a
\* nonzero address is patched at two sites of the second file.
C2_Witness ==
    /\ pc = "Succeeded"
    /\ Len(files) = 2
    /\ \E j, k \in 1..NRelocs :
          /\ j # k
          /\ RelName(j) = RelName(k)
          /\ Window(j) \cap Window(k) = {}
          /\ Site(j) >= Len(Decoded(1).code)
          /\ Site(k) >= Len(Decoded(1).code)
          /\ Target(k) # U(0)
          /\ SubSeq(output[1], Site(j) + 1, Site(j) + 4) = le4(Target(j))
          /\ SubSeq(output[1], Site(k) + 1, Site(k) + 4) = le4(Target(k))

\* C3 (as stated): once resolution has an outcome, every relocation entry
\* was processed; the outcome is the unresolved-symbol failure exactly when
\* some referenced name is absent from the combined symbol table; and the
\* failure's message mentions every absent name.
C3_AggregatedFailure ==
    ResolutionEnded =>
        /\ rel_done = 1..NRelocs
        /\ (pc = "FailedUnresolved") <=> (Missing # {})
        /\ pc = "FailedUnresolved" => \A m \in Missing : Mentions(stderr.list, m)

NonTerminal == {"link_loop", "resolving", "writing"}
DecodeFails(i) == Decoded(i).tag = "Panic"

\* C4: the output is written at most once, and only when every file was
\* decoded and merged and resolution ended with nothing unresolved; a file
\* that fails to decode stops the loop at that file; a missing symbol ends
\* resolution in the unresolved-symbol failure; every failure state and
\* the success state are terminal, and a failure state has written nothing.
C4_OutputOnlyAfterSuccess ==
    /\ Len(output) <= 1
    /\ output # <<>> =>
          /\ pc = "Succeeded"
          /\ idx = Len(files) + 1
          /\ \A i \in 1..Len(files) : ~DecodeFails(i)
          /\ rel_done = 1..NRelocs
          /\ unresolved_symbols = <<>>
          /\ Missing = {}
          /\ output = <<combined_code>>
    /\ \A i \in 1..Len(files) :
          DecodeFails(i) => /\ idx <= i
                            /\ pc \in {"link_loop", "Panicked", "IoError"}
    /\ (ResolveFinished /\ Missing # {}) => pc = "FailedUnresolved"
    /\ pc \notin NonTerminal => ~ENABLED Next
    /\ pc \notin NonTerminal \cup {"Succeeded"} => output = <<>>
    /\ pc = "Succeeded" => output # <<>>

\* C4 witness: a two-file link that patched a site and wrote its image.
C4_Witness ==
    /\ pc = "Succeeded"
    /\ Len(files) = 2
    /\ patches # <<>>
    /\ output = <<combined_code>>

AllDescs == LinkDescs \cup DecodeDescs

\* The mapping a symbol table's entries amount to when a later entry of a
\* name replaces an earlier one.
LastWins(syms) ==
    [name \in {syms[k][1] : k \in 1..Len(syms)} |->
        LET last == CHOOSE k \in 1..Len(syms) :
                        /\ syms[k][1] = name
                        /\ \A j \in (k + 1)..Len(syms) : syms[j][1] # name
        IN  syms[last][2]]

\* Every symbol name of the description is text (not the bytes NBad).
NamesAreText(d) == \A k \in 1..Len(d.syms) : d.syms[k][1] # NBad

\* Every well-formed file of the input sets, computed once: its bytes,
\* whether its names are text, and what its tables and code amount to.
WellFormed ==
    {[bytes       |-> object_bytes(d),
      text        |-> NamesAreText(d),
      nsyms       |-> Len(d.syms),
      symbols     |-> LastWins(d.syms),
      relocations |-> [k \in 1..Len(d.rels) |-> <<d.rels[k][3], d.rels[k][2]>>],
      code        |-> d.code,
      redefines   |-> {d.syms[k][1] : k \in {j \in 1..Len(d.syms) :
                          \E i \in 1..(j - 1) : d.syms[i][1] = d.syms[j][1]}}]
        : d \in AllDescs}

\* The u32 whose little-endian bytes start at 0-based offset i of b.
LE32(b, i) == <<b[i + 4] * 256 + b[i + 3], b[i + 2] * 256 + b[i + 1]>>

\* C5 (as stated): a file that decodes has a 20-byte header of five fields,
\* symbol_offset at byte 0, symbol_count at 4, relocation_offset at 8,
\* relocation_count at 12 and code_offset at 16; the code is every byte
\* from code_offset on.
C5_HeaderDecoding_Original ==
    obj_file.tag = "Ok" =>
        /\ Len(buffer) >= 20
        /\ obj_file.header.symbol_offset = LE32(buffer, 0)
        /\ obj_file.header.relocation_offset = LE32(buffer, 8)
        /\ obj_file.header.code_offset = LE32(buffer, 16)
        /\ Cardinality(DOMAIN obj_file.symbols) <= as_usize(LE32(buffer, 4))
        /\ obj_file.code = SubSeq(buffer, as_usize(LE32(buffer, 16)) + 1, Len(buffer))

\* C5 (amended): a file that decodes has at least 17 bytes; its header is
\* three fields, symbol_offset at byte 5, relocation_offset at byte 9 and
\* code_offset at byte 13 (bytes 0..4 are skipped); the symbol count is the
\* u32 at symbol_offset and the entries follow it; the code is every byte
\* from code_offset on.  A well-formed file with such a header decodes, and
\* its symbols are the table's entries, a later entry replacing an earlier
\* one of the same name.
C5_HeaderDecoding ==
    /\ \A w \in WellFormed :
          (buffer = w.bytes /\ w.text) =>
              /\ obj_file.tag = "Ok"
              /\ obj_file.header.symbol_offset = U(17)
              /\ LE32(buffer, 17) = U(w.nsyms)
              /\ obj_file.symbols = w.symbols
              /\ obj_file.code = w.code
    /\ obj_file.tag = "Ok" =>
        LET h == obj_file.header
        IN  /\ Len(buffer) >= 17
            /\ h.symbol_offset = LE32(buffer, 5)
            /\ h.relocation_offset = LE32(buffer, 9)
            /\ h.code_offset = LE32(buffer, 13)
            /\ h.symbol_offset[1] = 0
            /\ h.symbol_offset[2] + 4 <= Len(buffer)
            /\ LE32(buffer, h.symbol_offset[2])[1] = 0
            /\ Cardinality(DOMAIN obj_file.symbols) <= LE32(buffer, h.symbol_offset[2])[2]
            /\ h.code_offset[1] = 0
            /\ obj_file.code = SubSeq(buffer, h.code_offset[2] + 1, Len(buffer))

\* C5 witness: a decoded file whose skipped leading bytes are not zero,
\* with two symbols and some code.
C5_Witness ==
    /\ obj_file.tag = "Ok"
    /\ SubSeq(buffer, 1, 5) = Pad1
    /\ Cardinality(DOMAIN obj_file.symbols) = 2
    /\ Len(obj_file.code) = 8
    /\ obj_file.header.symbol_offset = U(17)

\* C6 (as stated): a relocation entry is a length byte, that many name
\* bytes, a 4-byte site count and the sites; stated of the first entry of a
\* file that decodes with at least one entry.
C6_RelocationDecoding_Original ==
    (obj_file.tag = "Ok" /\ obj_file.relocations # <<>>) =>
        LET e        == obj_file.header.relocation_offset[2] + 4
            name_len == buffer[e + 1]
        IN  /\ e + 1 + name_len + 8 <= Len(buffer)
            /\ obj_file.relocations[1][1] = SubSeq(buffer, e + 2, e + 1 + name_len)
            /\ LE32(buffer, e + 1 + name_len) # U(0)
            /\ obj_file.relocations[1][2] = LE32(buffer, e + 1 + name_len + 4)

\* C6 (amended): the relocation count is the u32 at relocation_offset; each
\* entry is 8 bytes, a 4-byte little-endian symbol index and a 4-byte
\* little-endian site; the entries are kept in table order as pairs of the
\* index written in decimal and the site, an entry repeating a name being
\* one more pair; a well-formed file of this layout decodes to its entries.
C6_RelocationDecoding ==
    /\ \A w \in WellFormed :
          (buffer = w.bytes /\ w.text) =>
              /\ obj_file.tag = "Ok"
              /\ obj_file.relocations = w.relocations
    /\ obj_file.tag = "Ok" =>
        LET h    == obj_file.header
            off  == h.relocation_offset[2]
            rels == obj_file.relocations
        IN  /\ h.relocation_offset[1] = 0
            /\ off + 4 + 8 * Len(rels) <= Len(buffer)
            /\ LE32(buffer, off) = U(Len(rels))
            /\ \A k \in 1..Len(rels) :
                  /\ rels[k][2] = LE32(buffer, off + 4 + 8 * (k - 1) + 4)
                  /\ rels[k][1] # <<>>
                  /\ \A c \in 1..Len(rels[k][1]) : rels[k][1][c] \in 48..57

\* C6 witness: a decoded file with two entries of the same two-digit name.
C6_Witness ==
    /\ obj_file.tag = "Ok"
    /\ Len(obj_file.relocations) = 2
    /\ obj_file.relocations[1] = <<N10, U(0)>>
    /\ obj_file.relocations[2] = <<N10, U(4)>>

\* C7 (as stated): a decode that fails on a read past the end of the buffer
\* (every panic of the decoder but the one for invalid UTF-8) reports a
\* message that names the field and carries the index of the symbol or
\* relocation being read.
C7_DecodeBoundsChecking ==
    (obj_file.tag = "Panic"
        /\ obj_file.msg # "called Result::unwrap() on an Err value: FromUtf8Error") =>
        /\ obj_file.msg \in
              {"Unexpected end of buffer while reading symbol name length at symbol {}",
               "Unexpected end of buffer while reading symbol name at symbol {}",
               "Unexpected end of buffer while reading symbol address at symbol {}",
               "Unexpected end of buffer while reading symbol index",
               "Unexpected end of buffer while reading relocation address",
               "Invalid symbol table offset, {offset}, buffer length {buffer_len}",
               "Invalid relocation table offset"}
        /\ Len(obj_file.args) = 1

\* The link as a function of the inputs and the build: the merge of the
\* first n files, stated without any iteration order.
RECURSIVE RefMerge(_)
RefMerge(n) ==
    IF n = 0
    THEN [tag |-> "Ok", symbols |-> EmptyMap, relocations |-> <<>>, code |-> <<>>]
    ELSE LET prev == RefMerge(n - 1)
             obj  == Decoded(n)
             base == as_u32(Len(prev.code))
         IN  IF prev.tag = "Panic" THEN prev
             ELSE IF obj.tag = "Panic" THEN obj
             ELSE IF overflow_checks /\ rebase_overflows(obj, base)
             THEN Panic("attempt to add with overflow", <<>>)
             ELSE [tag         |-> "Ok",
                   symbols     |-> [name \in DOMAIN prev.symbols \cup DOMAIN obj.symbols |->
                                       IF name \in DOMAIN obj.symbols
                                       THEN wrapping_add(obj.symbols[name], base)
                                       ELSE prev.symbols[name]],
                   relocations |-> prev.relocations \o
                                   [k \in 1..Len(obj.relocations) |->
                                       <<obj.relocations[k][1],
                                         wrapping_add(obj.relocations[k][2], base)>>],
                   code        |-> prev.code \o obj.code]

\* What the invocation ends with, <<pc, stderr, output>>, when no file
\* operation fails: each byte of the image is the byte of the last resolved
\* relocation covering it, else the input's byte; the unresolved names are
\* reported in relocation order; the first resolved relocation whose
\* window leaves the buffer aborts the process.
RefOutcome ==
    LET m == RefMerge(Len(files))
    IN  IF m.tag = "Panic" THEN <<"Panicked", m, <<>>>>
        ELSE
        LET n       == Len(m.relocations)
            name(k) == m.relocations[k][1]
            site(k) == as_usize(m.relocations[k][2])
            res(k)  == name(k) \in DOMAIN m.symbols
            outside == {k \in 1..n : res(k) /\ site(k) + 4 > Len(m.code)}
            absent(x) == x \notin DOMAIN m.symbols
            image   == [p \in 1..Len(m.code) |->
                          LET cover == {k \in 1..n : res(k) /\ p > site(k) /\ p <= site(k) + 4}
                          IN  IF cover = {} THEN m.code[p]
                              ELSE LET k == CHOOSE c \in cover : \A c2 \in cover : c2 <= c
                                   IN  le4(m.symbols[name(k)])[p - site(k)]]
            names   == SelectSeq([k \in 1..n |-> name(k)], absent)
        IN  IF outside # {}
            THEN LET k == CHOOSE c \in outside : \A c2 \in outside : c <= c2
                 IN  <<"Panicked",
                       Panic("range end index {} out of range for slice of length {}",
                             <<site(k) + 4, Len(m.code)>>),
                       <<>> >>
            ELSE IF names # <<>>
            THEN <<"FailedUnresolved",
                   [tag  |-> "LinkingFailed",
                    text |-> "Unresolved symbols: ",
                    list |-> join(names, <<44, 32>>)],
                   <<>> >>
            ELSE <<"Succeeded", Silent, <<image>> >>

\* C8: the way an invocation ends (success with its image, the
\* unresolved-symbol failure with its message, or an abort with its
\* message) is the function RefOutcome of the input files, their order and
\* the build: no choice of iteration order shows in it.
C8_Reproducibility ==
    pc \in {"Succeeded", "FailedUnresolved", "Panicked"} =>
        <<pc, stderr, output>> = RefOutcome

\* C8 witness: a successful link in which a file defined two names (so the
\* map's iteration had two orders) and two relocations of different
\* symbols have overlapping windows.
C8_Witness ==
    /\ pc = "Succeeded"
    /\ \E i \in 1..Len(files) : Cardinality(DOMAIN Decoded(i).symbols) = 2
    /\ \E j, k \in 1..NRelocs :
          /\ j < k
          /\ Window(j) \cap Window(k) # {}
          /\ Target(j) # Target(k)

\* No fault of another kind: every file decodes, no rebasing addition
\* overflows, every referenced name is defined in some file and every
\* rebased site's window lies in the image.
NoOtherFault ==
    /\ \A i \in 1..Len(files) : ~DecodeFails(i)
    /\ \A i \in 1..Len(files) : ~rebase_overflows(Decoded(i), as_u32(CodeLenBefore(i)))
    /\ \A i \in 1..Len(files) :
          \A k \in 1..Len(Decoded(i).relocations) :
              /\ \E j \in 1..Len(files) :
                    Decoded(i).relocations[k][1] \in DOMAIN Decoded(j).symbols
              /\ as_usize(Decoded(i).relocations[k][2]) + CodeLenBefore(i) + 4
                    <= CodeLenBefore(Len(files) + 1)

\* C9: the merged symbol table has one entry for every name the merged
\* files define, holding the rebased address of the name's definition in
\* the last file that defines it; within a well-formed file the last entry
\* of a name is the definition; every patch written for a relocation is
\* the table's address of its name, every resolved relocation visited was
\* patched, and a run that ends in a failure had a fault of another kind.
C9_LastDefinitionWins ==
    /\ DOMAIN combined_symbols = UNION {DOMAIN Decoded(i).symbols : i \in 1..(idx - 1)}
    /\ \A name \in DOMAIN combined_symbols :
          LET i == LastDefiner(name, idx - 1)
          IN  combined_symbols[name] =
                  wrapping_add(Decoded(i).symbols[name], as_u32(CodeLenBefore(i)))
    /\ \A w \in WellFormed :
          (buffer = w.bytes /\ obj_file.tag = "Ok") => obj_file.symbols = w.symbols
    /\ \A q \in 1..Len(patches) :
          patches[q][3] = le4(combined_symbols[RelName(patches[q][1])])
    /\ \A k \in rel_done : Resolved(k) => \E q \in 1..Len(patches) : patches[q][1] = k
    /\ pc \in {"Panicked", "FailedUnresolved"} => ~NoOtherFault

\* C9 witness: a successful link of two files that both define a name, the
\* second twice, with different rebased addresses, where the first file's
\* relocation of that name was patched with the second file's address.
C9_Witness ==
    /\ pc = "Succeeded"
    /\ Len(files) = 2
    /\ \E name \in DOMAIN combined_symbols :
          /\ name \in DOMAIN Decoded(1).symbols
          /\ name \in DOMAIN Decoded(2).symbols
          /\ Decoded(1).symbols[name] # combined_symbols[name]
          /\ \E w \in WellFormed :
                /\ Disk[files[2]] = w.bytes
                /\ name \in w.redefines
          /\ \E q \in 1..Len(patches) :
                /\ RelName(patches[q][1]) = name
                /\ patches[q][2] < Len(Decoded(1).code)
                /\ patches[q][3] = le4(combined_symbols[name])

RECURSIVE InputCode(_)
\* The code sections of the first n files, concatenated in input order.
InputCode(n) == IF n = 0 THEN <<>> ELSE InputCode(n - 1) \o Decoded(n).code

\* C10: the combined code buffer is as long as the merged files' code
\* sections together, resolution included; every byte outside the window of
\* every relocation whose symbol is defined is the byte of the concatenated
\* input code; no patch was written for a relocation whose symbol is
\* undefined; the image written is as long as all code sections together.
C10_ResolutionFrame ==
    /\ LET input == InputCode(idx - 1)
           inside == UNION {Window(k) : k \in {j \in 1..NRelocs : Resolved(j)}}
       IN  /\ Len(combined_code) = Len(input)
           /\ \A p \in (1..Len(combined_code)) \ inside : combined_code[p] = input[p]
    /\ \A q \in 1..Len(patches) : Resolved(patches[q][1])
    /\ output # <<>> => Len(output[1]) = Len(InputCode(Len(files)))

\* C10 witness: resolution of two files ended with one relocation patched
\* and another, of an undefined symbol, left as the input had it.
C10_Witness ==
    /\ pc = "FailedUnresolved"
    /\ Len(files) = 2
    /\ patches # <<>>
    /\ \E k \in 1..NRelocs :
          /\ ~Resolved(k)
          /\ Site(k) + 4 <= Len(combined_code)
          /\ SubSeq(combined_code, Site(k) + 1, Site(k) + 4) =
                 SubSeq(InputCode(2), Site(k) + 1, Site(k) + 4)

====
